---- MODULE Spec2Model ----
(***************************************************************************)
(* Capacity models of service_capacity_modeling: capacity_plan of the       *)
(* replicated-log (Kafka) and of the store (Cassandra) estimator, the      *)
(* default_desires of both and of the model contract, and the contract's   *)
(* regret.                                                                 *)
(*                                                                         *)
(* Python values are represented as follows.  An Optional[T] is a sequence *)
(* of length 0 (None) or 1 (the value).  A dictionary is a function whose  *)
(* domain is the set of keys present.  Floats are exact integers in the    *)
(* unit each definition states, or exact quotients of two integers.        *)
(***************************************************************************)
EXTENDS Integers, Sequences, FiniteSets, TLC

VARIABLES
    instance,               \* capacity_plan argument: the candidate Instance
    drive,                  \* capacity_plan argument: the attachable Drive
    context,                \* capacity_plan argument: the RegionContext
    desires,                \* capacity_plan argument: the CapacityDesires
    extra_model_arguments,  \* capacity_plan argument: the tuning-knob dictionary
    pc,                     \* "call" before the invocation, "sizing" inside the zone
                            \* sizer, "done" after the invocation
    result,                 \* outcome of the invocation
    regret_params,          \* regret argument: CapacityRegretParameters
    optimal_plan,           \* regret argument: the optimal plan
    scores,                 \* proposed plan -> regret map, for the plans scored so far
    model,                  \* the estimator the invocation is addressed to
    sizer,                  \* what the external sizing functions returned, per invocation input
    log                     \* the invocations made so far, in order; under SpecDiskIo
                            \* the zone sizer's evaluations of required_disk_ios

vars == <<instance, drive, context, desires, extra_model_arguments, pc, result,
          regret_params, optimal_plan, scores, model, sizer, log>>

kafka_vars == <<instance, drive, context, desires, extra_model_arguments, pc, result>>

harness_vars == <<model, sizer, log>>

regret_vars == <<regret_params, optimal_plan, scores>>

----------------------------------------------------------------------------
(* Python helpers *)

NoneValue == <<>>

Some(x) == <<x>>

EmptyDict == [k \in {} |-> 0]

\* dict.get(key, default)
Get(d, key, default) == IF key \in DOMAIN d THEN d[key] ELSE default

\* dict.get(key, None)
GetOptional(d, key) == IF key \in DOMAIN d THEN Some(d[key]) ELSE NoneValue

\* a.update(b): the keys of b win
Update(a, b) == [k \in DOMAIN a \cup DOMAIN b |-> IF k \in DOMAIN b THEN b[k] ELSE a[k]]

Max(a, b) == IF a >= b THEN a ELSE b

Min(a, b) == IF a <= b THEN a ELSE b

\* math.ceil(a / b) for a >= 0, b > 0
CeilDiv(a, b) == (a + b - 1) \div b

----------------------------------------------------------------------------
(* Bounds of the model *)

\* Node counts the zone sizer may come up with on its own: 1..MaxNodes, and the
\* counts around the default regional cap.
MaxNodes == 4

\* Annual costs of the plans that are scored: 0..MaxCost
MaxCost == 2

\* cost_exponent and disk_exponent: 0..MaxExponent
MaxExponent == 2

\* Proposed plans scored against one optimal plan
MaxScored == 2

----------------------------------------------------------------------------
(* Program constants *)

MIB_IN_BYTES == 1048576

MEGABIT_IN_BYTES == 125000

HA_DEFAULT_REPLICATION_FACTOR == 2

SC_DEFAULT_REPLICATION_FACTOR == 3

DefaultMaxRegionalSize == 150

DefaultMaxLocalDiskGib == 5120

DefaultMinInstanceCpu == 2

DefaultMinInstanceMemoryGib == 12

max_attached_disk_gib == 8192

EbsIncrementGib == 100

ClusterTypeStrong == "strong"

ClusterTypeHa == "high-availability"

----------------------------------------------------------------------------
(* External collaborators of the log estimator *)

\* iso_to_seconds: the ISO-8601 durations the model uses.
iso_to_seconds(s) ==
    CASE s = "PT10M" -> 600
      [] s = "PT1H" -> 3600
      [] s = "PT8H" -> 28800

\* utils.next_n(x, n): x rounded up to a multiple of n.
next_n(x, n) == n * CeilDiv(x, n)

\* What the external collaborators return in one invocation: the staffed cores
\* normalized onto the candidate instance, the node count the zone sizer needs
\* for the resources alone, and the cluster parameters it sets.
Externals ==
    [ normalized_cores : {2, 9},
      natural_count : (1..MaxNodes)
                      \cup {DefaultMaxRegionalSize \div z + d : z \in {2, 3}, d \in {0, 1}},
      cluster_params : {EmptyDict, [x \in {"sizer.param"} |-> 1]} ]

\* compute_stateful_zone: the zone sizer never returns fewer than min_count
\* nodes.
compute_stateful_zone(ext, min_count) ==
    [ count |-> Max(ext.natural_count, min_count),
      cluster_params |-> ext.cluster_params ]

\* zonal_requirements_from_current: the requirement read off the current
\* cluster's (peak-substituted) utilization.
zonal_requirements_from_current(current_cluster, ext) ==
    [ cpu_cores |-> ext.normalized_cores,
      disk_gib |-> current_cluster.disk_utilization_gib.mid,
      network_mbps |-> current_cluster.network_utilization_mbps.mid ]

----------------------------------------------------------------------------
(* kafka.py *)

\* desires.current_clusters.zonal[0], or None
get_current_zonal_cluster(d) ==
    IF d.current_clusters = NoneValue
    THEN NoneValue
    ELSE IF Len(d.current_clusters[1].zonal) > 0
         THEN Some(d.current_clusters[1].zonal[1])
         ELSE NoneValue

is_same_instance_family(cluster, target_family) ==
    IF cluster = NoneValue \/ cluster[1].cluster_instance = NoneValue
    THEN FALSE
    ELSE cluster[1].cluster_instance[1].family = target_family

\* Interval(low=x, mid=x, high=x)
PeakInterval(i) == [low |-> i.high, mid |-> i.high, high |-> i.high]

\* write_mib_per_second; the mean sizes of the model are whole MiB
WriteMibPerSecond(d) ==
    d.query_pattern.estimated_mean_write_size_bytes.mid \div MIB_IN_BYTES

\* Bytes per second of the wider network direction: bw_in and bw_out before
\* the division by MEGABIT_IN_BYTES.
BwInBytes(d, copies_per_region) ==
    d.query_pattern.estimated_mean_write_size_bytes.mid * copies_per_region

BwOutBytes(d, copies_per_region) ==
    d.query_pattern.estimated_mean_read_size_bytes.mid
    + d.query_pattern.estimated_mean_write_size_bytes.mid * (copies_per_region - 1)

\* Mutant of EstimatedNetworkMbps: the outbound direction alone, with the
\* replication traffic taken off the readers' traffic
EstimatedNetworkMbps_outbound(d, copies_per_region, zones_per_region) ==
    (Max(0, d.query_pattern.estimated_mean_read_size_bytes.mid
            - d.query_pattern.estimated_mean_write_size_bytes.mid
                  * (copies_per_region - 1)) * 7)
        \div (5 * MEGABIT_IN_BYTES * zones_per_region)

\* int((max(bw_in, bw_out) * 1.40) // zones_per_region), with 1.40 = 7/5
EstimatedNetworkMbps(d, copies_per_region, zones_per_region) ==
    (Max(BwInBytes(d, copies_per_region), BwOutBytes(d, copies_per_region)) * 7)
        \div (5 * MEGABIT_IN_BYTES * zones_per_region)

\* math.ceil((state_size.mid // zones_per_region) * 2.5)
EstimatedDiskGib(d, zones_per_region) ==
    CeilDiv((d.data_shape.estimated_state_size_gib.mid \div zones_per_region) * 5, 2)

\* ((write_mib_per_second * hot_retention_seconds) // 1024) // zones_per_region
NeededMemoryGib(d, hot_retention_seconds, zones_per_region) ==
    ((WriteMibPerSecond(d) * hot_retention_seconds) \div 1024) \div zones_per_region

UsesCurrentCluster(d, required_zone_size) ==
    LET current_zonal_capacity == get_current_zonal_cluster(d)
    IN  /\ current_zonal_capacity # NoneValue
        /\ current_zonal_capacity[1].cluster_instance # NoneValue
        /\ required_zone_size # NoneValue
        /\ d.current_clusters # NoneValue

estimate_kafka_requirement(inst, d, kw, ext) ==
    LET observed ==
            LET cur == d.current_clusters[1].zonal[1]
                peak == [cur EXCEPT
                            !.disk_utilization_gib = PeakInterval(cur.disk_utilization_gib),
                            !.cpu_utilization = PeakInterval(cur.cpu_utilization),
                            !.network_utilization_mbps =
                                PeakInterval(cur.network_utilization_mbps)]
            IN  zonal_requirements_from_current(peak, ext)
        from_current == UsesCurrentCluster(d, kw.required_zone_size)
    IN  [ requirement_type |-> "kafka-zonal",
          cpu_cores |-> IF from_current
                        THEN observed.cpu_cores
                        ELSE ext.normalized_cores \div kw.zones_per_region,
          mem_gib |-> NeededMemoryGib(d, kw.hot_retention_seconds, kw.zones_per_region),
          disk_gib |-> IF from_current
                       THEN observed.disk_gib
                       ELSE EstimatedDiskGib(d, kw.zones_per_region),
          network_mbps |-> IF from_current
                           THEN observed.network_mbps
                           ELSE EstimatedNetworkMbps(d, kw.copies_per_region,
                                                     kw.zones_per_region),
          context |-> [ hot_retention_seconds |-> kw.hot_retention_seconds,
                        replication_factor |-> kw.copies_per_region ] ]

\* Mutant of upsert_params: the parameters replace those of the cluster
upsert_params_replace(cluster, params) ==
    [cluster EXCEPT !.cluster_params = params]

upsert_params(cluster, params) ==
    IF DOMAIN cluster.cluster_params # {}
    THEN [cluster EXCEPT !.cluster_params = Update(cluster.cluster_params, params)]
    ELSE [cluster EXCEPT !.cluster_params = params]

\* Mutant of MinCount: only tier 0 needs two nodes per zone
MinCount_tier0(d, required_zone_size) ==
    LET min_count == IF d.service_tier < 1 THEN 2 ELSE 1
        forced == IF required_zone_size # NoneValue /\ required_zone_size[1] # 0
                  THEN required_zone_size[1]
                  ELSE 1
    IN  Max(min_count, forced)

\* min_count handed to the zone sizer
MinCount(d, required_zone_size) ==
    LET min_count == IF d.service_tier < 2 THEN 2 ELSE 1
        forced == IF required_zone_size # NoneValue /\ required_zone_size[1] # 0
                  THEN required_zone_size[1]
                  ELSE 1
    IN  Max(min_count, forced)

\* Mutant of MaxDiskSizeGib: a local drive of any size bounds the disk
MaxDiskSizeGib_local(inst, max_local_disk_gib) ==
    IF inst.drive # NoneValue
    THEN Min(max_local_disk_gib, inst.drive[1].size_gib)
    ELSE max_attached_disk_gib

\* Largest disk a node may get: max_size
MaxDiskSizeGib(inst, max_local_disk_gib) ==
    IF inst.drive # NoneValue /\ inst.drive[1].size_gib > 0
    THEN Min(max_local_disk_gib, inst.drive[1].size_gib)
    ELSE max_attached_disk_gib

\* Disk per node at the forced zone size: ebs_gib
ForcedSizeDiskGib(requirement, required_zone_size) ==
    next_n(Max(1, CeilDiv(requirement.disk_gib, required_zone_size[1])), EbsIncrementGib)

\* Mutant of ForcedSizeRejects: only a cluster smaller than the forced size is
\* rejected
ForcedSizeRejects_smaller(inst, requirement, cluster, required_zone_size, max_local_disk_gib) ==
    /\ required_zone_size # NoneValue
    /\ ForcedSizeDiskGib(requirement, required_zone_size)
           <= MaxDiskSizeGib(inst, max_local_disk_gib)
    /\ cluster.count < required_zone_size[1]

\* The forced zone size rejects the sized cluster
ForcedSizeRejects(inst, requirement, cluster, required_zone_size, max_local_disk_gib) ==
    /\ required_zone_size # NoneValue
    /\ ForcedSizeDiskGib(requirement, required_zone_size)
           <= MaxDiskSizeGib(inst, max_local_disk_gib)
    /\ cluster.count # required_zone_size[1]

\* Mutant of RegionalCapRejects: the zone count is held against the regional cap
RegionalCapRejects_regional(cluster, max_regional_size, zones_per_region) ==
    cluster.count > max_regional_size

\* The regional node cap rejects the sized cluster
RegionalCapRejects(cluster, max_regional_size, zones_per_region) ==
    cluster.count > (max_regional_size \div zones_per_region)

\* Mutant of BelowFloor: rejected only when below both floors
BelowFloor_both(inst, min_instance_cpu, min_instance_memory_gib) ==
    inst.cpu < min_instance_cpu /\ inst.ram_gib < min_instance_memory_gib

\* The instance is below the CPU or memory floor
BelowFloor(inst, min_instance_cpu, min_instance_memory_gib) ==
    inst.cpu < min_instance_cpu \/ inst.ram_gib < min_instance_memory_gib

\* Mutant of DriveRejects: the class of the attachable drive is not looked at
DriveRejects_flags(inst, drv, require_local_disks, require_attached_disks) ==
    \/ (inst.drive = NoneValue /\ require_local_disks)
    \/ (inst.drive # NoneValue /\ require_attached_disks)

\* The drive gates
DriveRejects(inst, drv, require_local_disks, require_attached_disks) ==
    \/ (inst.drive = NoneValue /\ require_local_disks)
    \/ (inst.drive # NoneValue /\ require_attached_disks)
    \/ (inst.drive = NoneValue /\ drv.name # "gp3")

\* Mutant of FamilyRejects: the family is held whether or not it is required
FamilyRejects_always(inst, d, require_same_instance_family) ==
    LET current_zonal_cluster == get_current_zonal_cluster(d)
    IN  /\ current_zonal_cluster # NoneValue
        /\ ~is_same_instance_family(current_zonal_cluster, inst.family)

\* The family gate
FamilyRejects(inst, d, require_same_instance_family) ==
    LET current_zonal_cluster == get_current_zonal_cluster(d)
    IN  /\ current_zonal_cluster # NoneValue
        /\ require_same_instance_family
        /\ ~is_same_instance_family(current_zonal_cluster, inst.family)

NoPlan == [kind |-> "none", plan |-> NoneValue]

Raised == [kind |-> "raise", plan |-> NoneValue]

Pending == [kind |-> "pending", plan |-> NoneValue]

Returned(p) == [kind |-> "plan", plan |-> Some(p)]

\* kw: the keyword arguments of the call, by name
estimate_kafka_cluster_zonal(inst, drv, d, kw, ext) ==
    IF BelowFloor(inst, kw.min_instance_cpu, kw.min_instance_memory_gib)
    THEN NoPlan
    ELSE IF DriveRejects(inst, drv, kw.require_local_disks, kw.require_attached_disks)
    THEN NoPlan
    ELSE IF FamilyRejects(inst, d, kw.require_same_instance_family)
    THEN NoPlan
    ELSE
      LET requirement == estimate_kafka_requirement(inst, d, kw, ext)
          sized == compute_stateful_zone(ext, MinCount(d, kw.required_zone_size))
          cluster == upsert_params(sized,
                                   [k \in {"kafka.copies"} |-> kw.copies_per_region])
      IN  IF ForcedSizeRejects(inst, requirement, cluster, kw.required_zone_size,
                               kw.max_local_disk_gib)
          THEN NoPlan
          ELSE IF RegionalCapRejects(cluster, kw.max_regional_size, kw.zones_per_region)
          THEN NoPlan
          ELSE Returned([ requirements |->
                              [ zonal |-> [z \in 1..kw.zones_per_region |-> requirement] ],
                          candidate_clusters |->
                              [ zonal |-> [z \in 1..kw.zones_per_region |->
                                             [ count |-> cluster.count,
                                               cluster_type |-> "kafka",
                                               cluster_params |-> cluster.cluster_params ]]
                              ] ])

\* cluster_type and copies_per_region as capacity_plan reads them
ClusterTypeOf(args) == Get(args, "cluster_type", ClusterTypeHa)

CopiesPerRegion(args) ==
    Get(args, "copies_per_region",
        IF ClusterTypeOf(args) = ClusterTypeStrong
        THEN SC_DEFAULT_REPLICATION_FACTOR
        ELSE HA_DEFAULT_REPLICATION_FACTOR)

\* raise ValueError("Strong consistency and RF<3 doesn't work")
RaisesConfigurationError(args) ==
    ClusterTypeOf(args) = ClusterTypeStrong /\ CopiesPerRegion(args) < 3

\* The keyword arguments capacity_plan hands to _estimate_kafka_cluster_zonal
KeywordArguments(ctx, args) ==
    [ zones_per_region |-> ctx.zones_in_region,
      copies_per_region |-> CopiesPerRegion(args),
      require_local_disks |-> Get(args, "require_local_disks", FALSE),
      require_attached_disks |-> Get(args, "require_attached_disks", FALSE),
      required_zone_size |-> GetOptional(args, "required_zone_size"),
      max_regional_size |-> Get(args, "max_regional_size", DefaultMaxRegionalSize),
      max_local_disk_gib |-> Get(args, "max_local_disk_gib", DefaultMaxLocalDiskGib),
      min_instance_cpu |-> Get(args, "min_instance_cpu", DefaultMinInstanceCpu),
      min_instance_memory_gib |->
          Get(args, "min_instance_memory_gib", DefaultMinInstanceMemoryGib),
      hot_retention_seconds |-> iso_to_seconds(Get(args, "hot_retention", "PT10M")),
      require_same_instance_family |-> Get(args, "require_same_instance_family", TRUE) ]

\* Mutant of capacity_plan: the instance floor is tested before the
\* replication factor
capacity_plan_floor_first(inst, drv, ctx, d, args, ext) ==
    IF BelowFloor(inst, KeywordArguments(ctx, args).min_instance_cpu,
                  KeywordArguments(ctx, args).min_instance_memory_gib)
    THEN NoPlan
    ELSE IF RaisesConfigurationError(args)
    THEN Raised
    ELSE estimate_kafka_cluster_zonal(inst, drv, d, KeywordArguments(ctx, args), ext)

\* Mutant of capacity_plan: a decline is retained, and answers the next
\* invocation
capacity_plan_retained(inst, drv, ctx, d, args, ext) ==
    IF result.kind = "none"
    THEN NoPlan
    ELSE IF RaisesConfigurationError(args)
    THEN Raised
    ELSE estimate_kafka_cluster_zonal(inst, drv, d, KeywordArguments(ctx, args), ext)

\* NflxKafkaCapacityModel.capacity_plan
capacity_plan(inst, drv, ctx, d, args, ext) ==
    IF RaisesConfigurationError(args)
    THEN Raised
    ELSE estimate_kafka_cluster_zonal(inst, drv, d, KeywordArguments(ctx, args), ext)

----------------------------------------------------------------------------
(* kafka.py: the objects an invocation reads and writes *)

\* The objects of one invocation: ref maps a variable to the object it is
\* bound to, obj maps an object to its value.  An object is named after the
\* variable it was created for.
CallerHeap(inst, drv, d) ==
    [ ref |-> [n \in {"instance", "drive", "desires"} |-> n],
      obj |-> [n \in {"instance", "drive", "desires"} |->
                 CASE n = "instance" -> inst
                   [] n = "drive" -> drv
                   [] n = "desires" -> d] ]

Deref(h, name) == h.obj[h.ref[name]]

\* Mutant of model_copy: dst is bound to the object of src itself
model_copy_alias(h, src, dst) ==
    [h EXCEPT !.ref = Update(h.ref, [x \in {dst} |-> h.ref[src]])]

\* dst = src.model_copy(deep=True): dst is bound to a new object of equal value
model_copy(h, src, dst) ==
    [ ref |-> Update(h.ref, [x \in {dst} |-> dst]),
      obj |-> Update(h.obj, [x \in {dst} |-> Deref(h, src)]) ]

\* An assignment to attributes of the object name is bound to
Assign(h, name, value) ==
    [h EXCEPT !.obj = Update(h.obj, [x \in {h.ref[name]} |-> value])]

\* Interval.scale(x)
scale(i, x) == [low |-> i.low * x, mid |-> i.mid * x, high |-> i.high * x]

\* read_mib_per_second; the mean sizes of the model are whole MiB
ReadMibPerSecond(d) ==
    d.query_pattern.estimated_mean_read_size_bytes.mid \div MIB_IN_BYTES

\* The assignments of _estimate_kafka_requirement
estimate_kafka_requirement_effects(h, kw) ==
    LET h1 == model_copy(h, "desires", "normalized_to_mib")
        normalized_to_mib == Deref(h1, "normalized_to_mib")
        rps == normalized_to_mib.query_pattern.estimated_read_per_second
        wps == normalized_to_mib.query_pattern.estimated_write_per_second
        h2 == Assign(h1, "normalized_to_mib",
                     [normalized_to_mib EXCEPT
                         !.query_pattern.estimated_read_per_second =
                             scale(rps, ReadMibPerSecond(normalized_to_mib)),
                         !.query_pattern.estimated_write_per_second =
                             scale(wps, WriteMibPerSecond(normalized_to_mib))])
        h3 == model_copy(h2, "desires", "normalize_midpoint_desires")
        cur == Deref(h2, "desires").current_clusters[1].zonal[1]
        copy == Deref(h3, "normalize_midpoint_desires")
        peak == [copy.current_clusters[1].zonal[1] EXCEPT
                    !.disk_utilization_gib = PeakInterval(cur.disk_utilization_gib),
                    !.cpu_utilization = PeakInterval(cur.cpu_utilization),
                    !.network_utilization_mbps =
                        PeakInterval(cur.network_utilization_mbps)]
    IN  IF UsesCurrentCluster(Deref(h2, "desires"), kw.required_zone_size)
        THEN Assign(h3, "normalize_midpoint_desires",
                    [copy EXCEPT !.current_clusters =
                        Some([copy.current_clusters[1] EXCEPT
                                 !.zonal = <<peak>> \o Tail(copy.current_clusters[1].zonal)])])
        ELSE h2

\* The assignments of _estimate_kafka_cluster_zonal
estimate_kafka_cluster_zonal_effects(h, kw) ==
    IF \/ BelowFloor(Deref(h, "instance"), kw.min_instance_cpu, kw.min_instance_memory_gib)
       \/ DriveRejects(Deref(h, "instance"), Deref(h, "drive"),
                       kw.require_local_disks, kw.require_attached_disks)
       \/ FamilyRejects(Deref(h, "instance"), Deref(h, "desires"),
                        kw.require_same_instance_family)
    THEN h
    ELSE model_copy(estimate_kafka_requirement_effects(h, kw),
                    "desires", "zonal.normalized_to_mib")

\* The objects after NflxKafkaCapacityModel.capacity_plan
capacity_plan_effects(inst, drv, ctx, d, args) ==
    IF RaisesConfigurationError(args)
    THEN CallerHeap(inst, drv, d)
    ELSE estimate_kafka_cluster_zonal_effects(CallerHeap(inst, drv, d),
                                              KeywordArguments(ctx, args))

----------------------------------------------------------------------------
(* The calls of capacity_plan that are checked *)

certain(x) == [low |-> x, mid |-> x, high |-> x]

\* The dictionaries with key k bound to one of vals, or without it
Knob(k, vals) == {EmptyDict} \cup {[x \in {k} |-> v] : v \in vals}

LocalDrive == Some([size_gib |-> 300])

CurrentCluster(cluster_instance) ==
    [ cluster_instance |-> cluster_instance,
      cpu_utilization |-> [low |-> 10, mid |-> 20, high |-> 40],
      disk_utilization_gib |-> [low |-> 100, mid |-> 200, high |-> 9000],
      network_utilization_mbps |-> [low |-> 50, mid |-> 100, high |-> 400] ]

KafkaDesires(tier, state_gib, readers, current_clusters) ==
    [ service_tier |-> tier,
      query_pattern |->
          [ estimated_read_per_second |-> certain(readers),
            estimated_write_per_second |-> certain(1),
            estimated_mean_write_size_bytes |-> certain(10 * MIB_IN_BYTES),
            estimated_mean_read_size_bytes |-> certain(readers * 10 * MIB_IN_BYTES) ],
      data_shape |-> [ estimated_state_size_gib |-> certain(state_gib) ],
      current_clusters |-> current_clusters ]

\* Calls that exercise the configuration check and the admissibility gates
GateArguments ==
    { Update(a, Update(b, Update(c, Update(e, Update(f, g))))) :
        a \in Knob("cluster_type", {ClusterTypeStrong, ClusterTypeHa}),
        b \in Knob("copies_per_region", {1, 2, 3}),
        c \in Knob("min_instance_cpu", {1}),
        e \in Knob("require_local_disks", {TRUE}),
        f \in Knob("require_attached_disks", {TRUE}),
        g \in Knob("require_same_instance_family", {FALSE}) }

GateCalls ==
    [ instance : [ cpu : {1, 2}, ram_gib : {11, 12},
                   drive : {NoneValue, LocalDrive}, family : {"m5", "r5"} ],
      drive : [ name : {"gp3", "gp2"}, seq_io_size_kib : {128} ],
      context : [ zones_in_region : {3} ],
      desires : { KafkaDesires(1, 121, 1, cc) :
                    cc \in { NoneValue,
                             Some([zonal |-> <<>>]),
                             Some([zonal |-> <<CurrentCluster(Some([family |-> "m5"]))>>]),
                             Some([zonal |-> <<CurrentCluster(NoneValue)>>]) } },
      args : GateArguments ]

\* Calls that exercise the sizing rules of an admissible candidate
SizingArguments ==
    { Update(a, Update(b, Update(c, Update(e, f)))) :
        a \in Knob("cluster_type", {ClusterTypeStrong}),
        b \in Knob("required_zone_size", {1, 3}),
        c \in Knob("max_regional_size", {7}),
        e \in Knob("max_local_disk_gib", {200}),
        f \in Knob("min_instance_memory_gib", {8}) }

SizingCalls ==
    [ instance : [ cpu : {2}, ram_gib : {11, 12},
                   drive : {NoneValue, LocalDrive, Some([size_gib |-> 0])},
                   family : {"m5"} ],
      drive : [ name : {"gp3"}, seq_io_size_kib : {128} ],
      context : [ zones_in_region : {2, 3} ],
      desires : { KafkaDesires(tier, gib, readers, cc) :
                    tier \in {1, 2}, gib \in {121, 30000}, readers \in {1, 4},
                    cc \in { NoneValue,
                             Some([zonal |-> <<CurrentCluster(Some([family |-> "m5"]))>>]) } },
      args : SizingArguments ]

KafkaInit ==
    /\ \E c \in GateCalls \cup SizingCalls :
          /\ instance = c.instance
          /\ drive = c.drive
          /\ context = c.context
          /\ desires = c.desires
          /\ extra_model_arguments = c.args
    /\ pc = "call"
    /\ result = Pending
    /\ regret_params = NoneValue
    /\ optimal_plan = NoneValue
    /\ scores = EmptyDict
    /\ model = "kafka"
    /\ sizer = EmptyDict
    /\ log = <<>>

\* One invocation of NflxKafkaCapacityModel.capacity_plan
KafkaCapacityPlan ==
    /\ pc = "call"
    /\ \E ext \in Externals :
          result' = capacity_plan(instance, drive, context, desires,
                                  extra_model_arguments, ext)
    /\ pc' = "done"
    /\ LET after == capacity_plan_effects(instance, drive, context, desires,
                                          extra_model_arguments)
       IN  /\ instance' = Deref(after, "instance")
           /\ drive' = Deref(after, "drive")
           /\ desires' = Deref(after, "desires")
    /\ UNCHANGED <<context, extra_model_arguments>>
    /\ UNCHANGED regret_vars
    /\ UNCHANGED harness_vars

Init == KafkaInit

Next == KafkaCapacityPlan

Spec == Init /\ [][Next]_vars

----------------------------------------------------------------------------
(* cassandra.py *)

\* Cassandra clusters shouldn't be more than 32 nodes per zone
MaxStoreZoneSize == 32

\* Cassandra doesn't like to deploy on really small instances
MinStoreInstanceCpu == 8

StoreDefaultZonesPerRegion == 3

StoreDefaultCopiesPerRegion == 3

\* utils.next_power_of_2: the least power of two that is at least x
RECURSIVE PowerOfTwoFrom(_, _)
PowerOfTwoFrom(p, x) == IF p >= x THEN p ELSE PowerOfTwoFrom(2 * p, x)

next_power_of_2(x) == PowerOfTwoFrom(1, x)

\* What the store estimator's external collaborators return in one invocation:
\* sqrt_staffed_cores, simple_network_mbps, the working-set fraction (in
\* percent) of working_set_from_drive_and_slo, the node count the zone sizer
\* needs for the resources alone, and the cluster parameters it sets.
StoreExternals ==
    [ staffed_cores : {4, 9},
      network_mbps : {100},
      working_set_percent : {10, 25},
      natural_count : (1..MaxNodes) \cup {17, MaxStoreZoneSize, MaxStoreZoneSize + 1},
      cluster_params : {EmptyDict} ]

estimate_cassandra_requirement(d, ext, zones_per_region, copies_per_region) ==
    LET needed_disk == d.data_shape.estimated_state_size_gib.mid * copies_per_region
        \* working_set * needed_disk, in hundredths of a GiB
        needed_memory == ext.working_set_percent * needed_disk
    IN  [ cpu_cores |-> (ext.staffed_cores * 2) \div zones_per_region,
          mem_gib |-> (needed_memory \div 100) \div zones_per_region,
          disk_gib |-> needed_disk \div zones_per_region,
          network_mbps |-> ext.network_mbps * 2 ]

\* Mutant of StoreBelowFloor: four cores are enough
StoreBelowFloor_four(inst) == inst.cpu < 4

\* The gates of _estimate_cassandra_cluster_zonal
StoreLocalOnlyRejects(inst, allow_gp2) == inst.drive = NoneValue /\ ~allow_gp2

StoreDriveRejects(drv) == drv.name # "gp2"

StoreBelowFloor(inst) == inst.cpu < MinStoreInstanceCpu

\* Mutant of StoreSizeRejects: a zone of up to 64 nodes is let through
StoreSizeRejects_64(cluster, required_cluster_size) ==
    \/ (required_cluster_size # NoneValue /\ cluster.count # required_cluster_size[1])
    \/ cluster.count > 2 * MaxStoreZoneSize

\* The forced cluster size and the zone cap reject the sized cluster
StoreSizeRejects(cluster, required_cluster_size) ==
    \/ (required_cluster_size # NoneValue /\ cluster.count # required_cluster_size[1])
    \/ cluster.count > MaxStoreZoneSize

\* kw: the keyword arguments of the call, by name
estimate_cassandra_cluster_zonal(inst, drv, d, kw, ext) ==
    IF StoreLocalOnlyRejects(inst, kw.allow_gp2)
    THEN NoPlan
    ELSE IF StoreDriveRejects(drv)
    THEN NoPlan
    ELSE IF StoreBelowFloor(inst)
    THEN NoPlan
    ELSE
      LET requirement == estimate_cassandra_requirement(d, ext, kw.zones_per_region,
                                                        kw.copies_per_region)
          \* cluster_size=next_power_of_2, and no min_count
          cluster == compute_stateful_zone(
                         [ext EXCEPT !.natural_count = next_power_of_2(@)], 0)
      IN  IF StoreSizeRejects(cluster, kw.required_cluster_size)
          THEN NoPlan
          ELSE Returned([ requirement |-> requirement,
                          candidate_clusters |->
                              [ zonal |-> [z \in 1..kw.zones_per_region |->
                                             [ count |-> cluster.count,
                                               cluster_type |-> "cassandra",
                                               cluster_params |-> cluster.cluster_params ]]
                              ] ])

\* The keyword arguments NflxCassandraCapacityModel.capacity_plan pops
StoreKeywordArguments(kwargs) ==
    [ zones_per_region |-> Get(kwargs, "zones_per_region", StoreDefaultZonesPerRegion),
      copies_per_region |-> Get(kwargs, "copies_per_region", StoreDefaultCopiesPerRegion),
      allow_gp2 |-> Get(kwargs, "allow_gp2", TRUE),
      required_cluster_size |-> GetOptional(kwargs, "required_cluster_size") ]

\* NflxCassandraCapacityModel.capacity_plan
cassandra_capacity_plan(inst, drv, d, kwargs, ext) ==
    estimate_cassandra_cluster_zonal(inst, drv, d, StoreKeywordArguments(kwargs), ext)

----------------------------------------------------------------------------
(* The calls of the store estimator's capacity_plan that are checked *)

StoreArguments ==
    { Update(a, Update(b, Update(c, e))) :
        a \in Knob("zones_per_region", {2}),
        b \in Knob("copies_per_region", {2}),
        c \in Knob("allow_gp2", {FALSE}),
        e \in Knob("required_cluster_size", {2, 3, 2 * MaxStoreZoneSize}) }

StoreCalls ==
    [ instance : [ cpu : {4, 8}, ram_gib : {64},
                   drive : {NoneValue, LocalDrive}, family : {"m5"} ],
      drive : [ name : {"gp2", "gp3"}, seq_io_size_kib : {128} ],
      context : [ zones_in_region : {3} ],
      desires : { KafkaDesires(1, gib, 1, NoneValue) : gib \in {100, 1000} },
      args : StoreArguments ]

CassandraInit ==
    /\ \E c \in StoreCalls :
          /\ instance = c.instance
          /\ drive = c.drive
          /\ context = c.context
          /\ desires = c.desires
          /\ extra_model_arguments = c.args
    /\ pc = "call"
    /\ result = Pending
    /\ regret_params = NoneValue
    /\ optimal_plan = NoneValue
    /\ scores = EmptyDict
    /\ model = "cassandra"
    /\ sizer = EmptyDict
    /\ log = <<>>

\* One invocation of NflxCassandraCapacityModel.capacity_plan; the keyword
\* arguments are those of extra_model_arguments
CassandraCapacityPlan ==
    /\ pc = "call"
    /\ \E ext \in StoreExternals :
          result' = cassandra_capacity_plan(instance, drive, desires,
                                            extra_model_arguments, ext)
    /\ pc' = "done"
    /\ UNCHANGED <<instance, drive, context, desires, extra_model_arguments>>
    /\ UNCHANGED regret_vars
    /\ UNCHANGED harness_vars

SpecCassandra == CassandraInit /\ [][CassandraCapacityPlan]_vars

----------------------------------------------------------------------------
(* The planner's search: both estimators are invoked, one call after another, *)
(* on candidates of one workload                                              *)

\* Invocations in one search
MaxCalls == 3

\* The write rate is doubled while it is below MaxWriteMib MiB per second
MaxWriteMib == 40

ValidContext == [zones_in_region |-> 3]

\* The hardware candidates <<instance, drive>> of the search, in the order
\* they are tried
Candidates ==
    << [ instance |-> [cpu |-> 8, ram_gib |-> 16, drive |-> NoneValue, family |-> "m5"],
         drive |-> [name |-> "gp3", seq_io_size_kib |-> 128] ],
       [ instance |-> [cpu |-> 8, ram_gib |-> 16, drive |-> Some([size_gib |-> 0]),
                       family |-> "r5"],
         drive |-> [name |-> "gp2", seq_io_size_kib |-> 128] ] >>

HarnessDesires ==
    { KafkaDesires(1, shape[1], shape[2], cc) :
        shape \in {<<121, 1>>, <<30000, 4>>},
        cc \in { NoneValue,
                 Some([zonal |-> <<CurrentCluster(Some([family |-> "m5"]))>>]) } }
    \cup { KafkaDesires(1, 121, 1, Some([zonal |-> <<CurrentCluster(NoneValue)>>])) }

HarnessArguments ==
    { EmptyDict,
      [x \in {"required_zone_size"} |-> 3],
      [x \in {"copies_per_region"} |-> 1],
      [x \in {"require_same_instance_family"} |-> FALSE],
      [x \in {"cluster_type", "copies_per_region"} |->
         IF x = "cluster_type" THEN ClusterTypeStrong ELSE 2] }

\* What the external collaborators may return in the search
HarnessExternals == { e \in Externals : e.normalized_cores = 2
                                        /\ e.natural_count \in {3, 4}
                                        /\ e.cluster_params = EmptyDict }

HarnessStoreExternals == { e \in StoreExternals : e.staffed_cores = 4
                                                  /\ e.working_set_percent = 10
                                                  /\ e.natural_count = 3 }

\* The inputs of the invocation at hand
Call ==
    [ instance |-> instance, drive |-> drive, context |-> context,
      desires |-> desires, args |-> extra_model_arguments ]

\* The external collaborators are functions of their inputs: what they
\* returned for these inputs before, they return again
Collaborators(m, all) ==
    LET key == [model |-> m, call |-> Call]
    IN  IF key \in DOMAIN sizer THEN {sizer[key]} ELSE all

Invocation(m, ext, after, r) ==
    [ model |-> m, before |-> Call, ext |-> ext, after |-> after, result |-> r ]

HarnessInit ==
    /\ instance = Candidates[1].instance
    /\ drive = Candidates[1].drive
    /\ context = ValidContext
    /\ desires \in HarnessDesires
    /\ extra_model_arguments \in HarnessArguments
    /\ pc = "call"
    /\ result = Pending
    /\ regret_params = NoneValue
    /\ optimal_plan = NoneValue
    /\ scores = EmptyDict
    /\ model = "kafka"
    /\ sizer = EmptyDict
    /\ log = <<>>

\* NflxKafkaCapacityModel.capacity_plan is invoked on the inputs at hand
KafkaInvoke ==
    /\ pc = "call"
    /\ Len(log) < MaxCalls
    /\ \E ext \in Collaborators("kafka", HarnessExternals) :
          LET r == capacity_plan(instance, drive, context, desires,
                                 extra_model_arguments, ext)
              h == capacity_plan_effects(instance, drive, context, desires,
                                         extra_model_arguments)
              after == [Call EXCEPT !.instance = Deref(h, "instance"),
                                    !.drive = Deref(h, "drive"),
                                    !.desires = Deref(h, "desires")]
          IN  /\ result' = r
              /\ instance' = after.instance
              /\ drive' = after.drive
              /\ desires' = after.desires
              /\ sizer' = Update(sizer, [x \in {[model |-> "kafka", call |-> Call]} |-> ext])
              /\ log' = Append(log, Invocation("kafka", ext, after, r))
    /\ model' = "kafka"
    /\ pc' = "done"
    /\ UNCHANGED <<context, extra_model_arguments>>
    /\ UNCHANGED regret_vars

\* NflxCassandraCapacityModel.capacity_plan is invoked on the inputs at hand,
\* the extra arguments being its keyword arguments; it assigns to no object of
\* the caller
CassandraInvoke ==
    /\ pc = "call"
    /\ Len(log) < MaxCalls
    /\ \E ext \in Collaborators("cassandra", HarnessStoreExternals) :
          LET r == cassandra_capacity_plan(instance, drive, desires,
                                           extra_model_arguments, ext)
          IN  /\ result' = r
              /\ sizer' = Update(sizer,
                                 [x \in {[model |-> "cassandra", call |-> Call]} |-> ext])
              /\ log' = Append(log, Invocation("cassandra", ext, Call, r))
    /\ model' = "cassandra"
    /\ pc' = "done"
    /\ UNCHANGED <<instance, drive, context, desires, extra_model_arguments>>
    /\ UNCHANGED regret_vars

\* The caller invokes again with the inputs it holds
InvokeAgain ==
    /\ pc = "done"
    /\ pc' = "call"
    /\ UNCHANGED <<instance, drive, context, desires, extra_model_arguments, result>>
    /\ UNCHANGED regret_vars
    /\ UNCHANGED harness_vars

\* The caller moves on to the next hardware candidate
NextCandidate ==
    /\ pc = "done"
    /\ \E i \in DOMAIN Candidates :
          /\ Candidates[i].instance # instance \/ Candidates[i].drive # drive
          /\ instance' = Candidates[i].instance
          /\ drive' = Candidates[i].drive
    /\ pc' = "call"
    /\ UNCHANGED <<context, desires, extra_model_arguments, result>>
    /\ UNCHANGED regret_vars
    /\ UNCHANGED harness_vars

\* The caller doubles the write rate of the workload: the writes per second, or
\* the write bytes per second the log estimator sizes the network with
DoubleWriteRate ==
    /\ pc = "done"
    /\ WriteMibPerSecond(desires) < MaxWriteMib
    /\ \E field \in {"estimated_write_per_second", "estimated_mean_write_size_bytes"} :
          desires' = [desires EXCEPT !.query_pattern[field] = scale(@, 2)]
    /\ pc' = "call"
    /\ UNCHANGED <<instance, drive, context, extra_model_arguments, result>>
    /\ UNCHANGED regret_vars
    /\ UNCHANGED harness_vars

HarnessNext ==
    \/ KafkaInvoke
    \/ CassandraInvoke
    \/ InvokeAgain
    \/ NextCandidate
    \/ DoubleWriteRate

SpecHarness == HarnessInit /\ [][HarnessNext]_vars

----------------------------------------------------------------------------
(* kafka.py: the disk IO budget handed to the zone sizer *)

\* Evaluations of required_disk_ios by the zone sizer in one sizing
MaxQueries == 2

\* A float that is the quotient of two integers, kept exact
Ratio(n, d) == [num |-> n, den |-> d]

\* int(round(x)) for x = num / den >= 0: to the nearest whole, a tie to the even
RoundHalfEven(num, den) ==
    LET q == num \div den
        r == num % den
    IN  IF 2 * r < den THEN q
        ELSE IF 2 * r > den THEN q + 1
        ELSE IF q % 2 = 0 THEN q ELSE q + 1

\* read_mib_per_second and write_mib_per_second of _estimate_kafka_cluster_zonal
ZonalReadMibPerSecond(d, zones_per_region) ==
    (d.query_pattern.estimated_mean_read_size_bytes.mid \div MIB_IN_BYTES)
        \div zones_per_region

ZonalWriteMibPerSecond(d, zones_per_region) ==
    (d.query_pattern.estimated_mean_write_size_bytes.mid \div MIB_IN_BYTES)
        \div zones_per_region

\* read_ios_per_second, write_ios_per_second
IosPerSecond(mib_per_second, drv) ==
    Max(1, (mib_per_second * 1024) \div drv.seq_io_size_kib)

\* Mutant of kafka_read_io: the whole disk is read again in a recovery
kafka_read_io_whole_disk(rps, io_size_kib, size_gib, recovery_seconds) ==
    LET size_kib == size_gib * 1048576
        recovery_ios == Ratio(Max(io_size_kib, size_kib), io_size_kib * recovery_seconds)
        recovered == RoundHalfEven(recovery_ios.num, recovery_ios.den)
    IN  Ratio(3 * (rps.num + recovered * rps.den * 20), 2 * rps.den * 20)

\* _kafka_read_io; rps is a Ratio, and so is the result
kafka_read_io(rps, io_size_kib, size_gib, recovery_seconds) ==
    LET \* rps * 0.05
        read_ios == Ratio(rps.num, rps.den * 20)
        \* size_gib * 0.5 * (1024 * 1024)
        size_kib == size_gib * 524288
        \* max(1, size_kib / io_size_kib) / recovery_seconds
        recovery_ios == Ratio(Max(io_size_kib, size_kib), io_size_kib * recovery_seconds)
        recovered == RoundHalfEven(recovery_ios.num, recovery_ios.den)
    IN  \* (read_ios + int(round(recovery_ios))) * 1.5
        Ratio(3 * (read_ios.num + recovered * read_ios.den), 2 * read_ios.den)

\* required_disk_ios=lambda size, count: (...), as handed to
\* compute_stateful_zone
required_disk_ios(d, drv, kw, size, count) ==
    LET read_ios_per_second ==
            IosPerSecond(ZonalReadMibPerSecond(d, kw.zones_per_region), drv)
        write_ios_per_second ==
            IosPerSecond(ZonalWriteMibPerSecond(d, kw.zones_per_region), drv)
    IN  [ read |-> kafka_read_io(Ratio(read_ios_per_second, count),
                                 drv.seq_io_size_kib, size, 60 * 60),
          write |-> Ratio(kw.copies_per_region * write_ios_per_second * 2, count) ]

\* Disk sizes in GiB and node counts the zone sizer asks the budget for
SizerQueries == [ size : {0, 1, 100, 3000}, count : 1..3 ]

\* The sizings whose budget is checked: admissible candidates of a valid
\* configuration, for which the zone sizer is called
DiskIoCalls ==
    [ instance : {Candidates[1].instance},
      drive : [ name : {"gp3"}, seq_io_size_kib : {128, 256} ],
      context : [ zones_in_region : {2, 3} ],
      desires : { [KafkaDesires(1, 121, readers, NoneValue) EXCEPT
                      !.query_pattern.estimated_mean_write_size_bytes =
                          certain(write_mib * MIB_IN_BYTES),
                      !.query_pattern.estimated_mean_read_size_bytes =
                          certain(readers * write_mib * MIB_IN_BYTES)] :
                    readers \in {1, 4}, write_mib \in {1, 10} },
      args : Knob("copies_per_region", {3}) ]

DiskIoInit ==
    /\ \E c \in DiskIoCalls :
          /\ instance = c.instance
          /\ drive = c.drive
          /\ context = c.context
          /\ desires = c.desires
          /\ extra_model_arguments = c.args
    /\ pc = "sizing"
    /\ result = Pending
    /\ regret_params = NoneValue
    /\ optimal_plan = NoneValue
    /\ scores = EmptyDict
    /\ model = "kafka"
    /\ sizer = EmptyDict
    /\ log = <<>>

\* The zone sizer evaluates required_disk_ios(size, count) for a disk size and a
\* node count it considers
RequiredDiskIos ==
    /\ pc = "sizing"
    /\ Len(log) < MaxQueries
    /\ \E q \in SizerQueries :
          log' = Append(log,
                        [ size |-> q.size, count |-> q.count,
                          ios |-> required_disk_ios(
                                      desires, drive,
                                      KeywordArguments(context, extra_model_arguments),
                                      q.size, q.count) ])
    /\ UNCHANGED <<instance, drive, context, desires, extra_model_arguments, pc, result>>
    /\ UNCHANGED regret_vars
    /\ UNCHANGED <<model, sizer>>

SpecDiskIo == DiskIoInit /\ [][RequiredDiskIos]_vars

----------------------------------------------------------------------------
(* kafka.py: capacity_plan on the knobs of its argument schema *)

\* The fields NflxKafkaArguments declares
NflxKafkaArguments ==
    { "copies_per_region", "cluster_type", "retention", "hot_retention",
      "require_local_disks", "require_attached_disks", "required_zonal_size",
      "max_regional_size", "max_local_disk_gib", "min_instance_cpu",
      "min_instance_memory_gib" }

\* The keys capacity_plan reads from extra_model_arguments
KnobsRead ==
    { "cluster_type", "copies_per_region", "max_regional_size", "max_local_disk_gib",
      "min_instance_cpu", "min_instance_memory_gib", "hot_retention",
      "require_local_disks", "require_attached_disks", "required_zone_size",
      "require_same_instance_family" }

\* Extra arguments that set the replication and force a zone size, under the
\* name the schema declares and under the name capacity_plan reads
SchemaArguments ==
    LET arguments ==
            { Update(a, Update(b, Update(c, e))) :
                a \in Knob("cluster_type", {ClusterTypeStrong, ClusterTypeHa}),
                b \in Knob("copies_per_region", {2, 3, 4}),
                c \in Knob("required_zonal_size", {3}),
                e \in Knob("required_zone_size", {3}) }
    IN  { a \in arguments : DOMAIN a \subseteq NflxKafkaArguments \cup KnobsRead }

SchemaCalls ==
    [ instance : {Candidates[1].instance},
      drive : {Candidates[1].drive},
      context : {ValidContext},
      desires : { KafkaDesires(2, gib, 1, cc) :
                    gib \in {121, 30000},
                    cc \in { NoneValue,
                             Some([zonal |-> <<CurrentCluster(Some([family |-> "m5"]))>>]) } },
      args : SchemaArguments ]

SchemaInit ==
    /\ \E c \in SchemaCalls :
          /\ instance = c.instance
          /\ drive = c.drive
          /\ context = c.context
          /\ desires = c.desires
          /\ extra_model_arguments = c.args
    /\ pc = "call"
    /\ result = Pending
    /\ regret_params = NoneValue
    /\ optimal_plan = NoneValue
    /\ scores = EmptyDict
    /\ model = "kafka"
    /\ sizer = EmptyDict
    /\ log = <<>>

\* One invocation of NflxKafkaCapacityModel.capacity_plan, what the external
\* collaborators returned to it being kept with its result
CapacityPlanOfSizer ==
    /\ pc = "call"
    /\ \E ext \in Externals :
          LET r == capacity_plan(instance, drive, context, desires,
                                 extra_model_arguments, ext)
              h == capacity_plan_effects(instance, drive, context, desires,
                                         extra_model_arguments)
              after == [Call EXCEPT !.instance = Deref(h, "instance"),
                                    !.drive = Deref(h, "drive"),
                                    !.desires = Deref(h, "desires")]
          IN  /\ result' = r
              /\ instance' = after.instance
              /\ drive' = after.drive
              /\ desires' = after.desires
              /\ log' = Append(log, Invocation("kafka", ext, after, r))
    /\ pc' = "done"
    /\ UNCHANGED <<context, extra_model_arguments>>
    /\ UNCHANGED regret_vars
    /\ UNCHANGED <<model, sizer>>

SpecSchema == SchemaInit /\ [][CapacityPlanOfSizer]_vars

----------------------------------------------------------------------------
(* default_desires of the model contract, the log estimator and the store *)
(* estimator                                                              *)

\* AccessConsistency.linearizable, AccessConsistency.serializable
unlikely_consistency_models == {"linearizable", "serializable"}

\* A returned CapacityDesires
ReturnedDesires(d) == [kind |-> "desires", plan |-> Some(d)]

\* FixedInterval / Interval(low, mid, high)
Interval(low, mid, high) == [low |-> low, mid |-> mid, high |-> high]

\* CapacityModel.default_desires; latencies are in tenths of a millisecond
base_default_desires(user_desires) ==
    IF user_desires.query_pattern.access_consistency \in unlikely_consistency_models
    THEN Raised
    ELSE IF user_desires.query_pattern.access_pattern = "latency"
    THEN ReturnedDesires(
             [ query_pattern |->
                 [ access_pattern |-> "latency",
                   estimated_mean_read_latency_ms |-> certain(10),
                   estimated_mean_write_latency_ms |-> certain(10),
                   read_latency_slo_ms |-> Interval(4, 40, 100),
                   write_latency_slo_ms |-> Interval(4, 40, 100) ] ])
    ELSE ReturnedDesires(
             [ query_pattern |->
                 [ access_pattern |-> "throughput",
                   estimated_mean_read_latency_ms |-> certain(100),
                   estimated_mean_write_latency_ms |-> certain(200),
                   read_latency_slo_ms |-> Interval(100, 500, 1000),
                   write_latency_slo_ms |-> Interval(100, 500, 1000) ] ])

\* replication_factor of NflxKafkaCapacityModel.default_desires
DefaultDesiresReplicationFactor(args) ==
    IF "cluster_type" \in DOMAIN args /\ args["cluster_type"] = ClusterTypeStrong
    THEN SC_DEFAULT_REPLICATION_FACTOR
    ELSE HA_DEFAULT_REPLICATION_FACTOR

\* state_gib, in MiB: write_bytes.mid * retention_secs * replication_factor
DefaultStateMib(write_bytes, args) ==
    (write_bytes.mid \div MIB_IN_BYTES)
        * iso_to_seconds(Get(args, "retention", "PT8H"))
        * DefaultDesiresReplicationFactor(args)

\* NflxKafkaCapacityModel.default_desires; the state size is in MiB, latencies
\* are in milliseconds, buffer ratios in tenths
kafka_default_desires(user_desires, args) ==
    LET concurrent_readers ==
            Max(1, user_desires.query_pattern.estimated_read_per_second.mid)
        query_pattern == user_desires.query_pattern
        write_bytes ==
            IF "estimated_mean_write_size_bytes" \in DOMAIN query_pattern
            THEN query_pattern.estimated_mean_write_size_bytes
            ELSE certain(10 * MIB_IN_BYTES)
        read_bytes == scale(write_bytes, concurrent_readers)
        state_mib == DefaultStateMib(write_bytes, args)
        compute_buffer_ratio == IF user_desires.service_tier \in {0, 1} THEN 25 ELSE 20
    IN  ReturnedDesires(
            [ query_pattern |->
                [ access_pattern |-> "throughput",
                  access_consistency |-> [ same_region |-> "read_your_writes",
                                           cross_region |-> "never" ],
                  estimated_mean_write_size_bytes |-> write_bytes,
                  estimated_mean_read_size_bytes |-> read_bytes,
                  estimated_mean_read_latency_ms |-> Interval(20, 40, 75),
                  estimated_mean_write_latency_ms |-> Interval(20, 30, 75) ],
              data_shape |->
                [ estimated_state_size_gib |->
                      Interval(state_mib \div 2, state_mib, state_mib * 2),
                  reserved_instance_app_mem_gib |-> 1,
                  reserved_instance_system_mem_gib |-> 3 ],
              buffers |-> [ default |-> 15, compute |-> compute_buffer_ratio,
                            storage |-> 25 ] ])

\* NflxCassandraCapacityModel.default_desires; latencies are in tenths of a
\* millisecond
cassandra_default_desires(user_desires) ==
    IF user_desires.query_pattern.access_pattern = "latency"
    THEN ReturnedDesires(
             [ query_pattern |->
                 [ access_pattern |-> "latency",
                   estimated_mean_read_size_bytes |-> Interval(128, 1024, 65536),
                   estimated_mean_write_size_bytes |-> Interval(64, 128, 1024),
                   estimated_mean_read_latency_ms |-> Interval(2, 10, 100),
                   estimated_mean_write_latency_ms |-> Interval(2, 6, 20),
                   read_latency_slo_ms |-> Interval(4, 40, 100),
                   write_latency_slo_ms |-> Interval(4, 40, 100) ],
               data_shape |-> [ estimated_state_size_gib |-> Interval(10, 100, 1000) ] ])
    ELSE ReturnedDesires(
             [ query_pattern |->
                 [ access_pattern |-> "latency",
                   estimated_mean_read_size_bytes |-> Interval(128, 1024, 65536),
                   estimated_mean_write_size_bytes |-> Interval(64, 128, 1024),
                   estimated_mean_read_latency_ms |-> Interval(2, 50, 200),
                   estimated_mean_write_latency_ms |-> Interval(2, 6, 20),
                   read_latency_slo_ms |-> Interval(4, 40, 100),
                   write_latency_slo_ms |-> Interval(4, 40, 100) ],
               data_shape |-> [ estimated_state_size_gib |-> Interval(100, 1000, 4000) ] ])

----------------------------------------------------------------------------
(* The calls of default_desires that are checked *)

UserDesires ==
    { [ service_tier |-> tier,
        query_pattern |->
            [ access_pattern |-> pattern,
              access_consistency |-> consistency,
              estimated_read_per_second |-> certain(readers),
              estimated_write_per_second |-> certain(1),
              estimated_mean_write_size_bytes |-> certain(write_mib * MIB_IN_BYTES) ] ] :
        tier \in {0, 1, 2},
        pattern \in {"latency", "throughput"},
        consistency \in {"eventual", "read_your_writes", "linearizable", "serializable"},
        readers \in {0, 4},
        write_mib \in {10, 20} }

DesiresArguments ==
    { Update(a, Update(b, c)) :
        a \in Knob("cluster_type", {ClusterTypeStrong, ClusterTypeHa}),
        b \in Knob("copies_per_region", {3}),
        c \in Knob("retention", {"PT1H"}) }

DesiresInit ==
    /\ desires \in UserDesires
    /\ extra_model_arguments \in DesiresArguments
    /\ model = "none"
    /\ pc = "call"
    /\ result = Pending
    /\ instance = NoneValue
    /\ drive = NoneValue
    /\ context = NoneValue
    /\ regret_params = NoneValue
    /\ optimal_plan = NoneValue
    /\ scores = EmptyDict
    /\ sizer = EmptyDict
    /\ log = <<>>

\* One invocation of default_desires of the estimator m, desires being the
\* user desires
DefaultDesires(m, outcome) ==
    /\ pc = "call"
    /\ model' = m
    /\ result' = outcome
    /\ pc' = "done"
    /\ UNCHANGED <<instance, drive, context, desires, extra_model_arguments>>
    /\ UNCHANGED regret_vars
    /\ UNCHANGED <<sizer, log>>

BaseDefaultDesires == DefaultDesires("base", base_default_desires(desires))

KafkaDefaultDesires ==
    DefaultDesires("kafka", kafka_default_desires(desires, extra_model_arguments))

CassandraDefaultDesires == DefaultDesires("cassandra", cassandra_default_desires(desires))

DesiresNext ==
    \/ BaseDefaultDesires
    \/ KafkaDefaultDesires
    \/ CassandraDefaultDesires

SpecDesires == DesiresInit /\ [][DesiresNext]_vars

----------------------------------------------------------------------------
(* models/__init__.py: CapacityModel.regret *)

\* over_provision_cost and under_provision_cost are counted in quarters (5 is
\* 1.25), the exponents are whole numbers, and a regret is counted in
\* ten-thousandths, the precision round(x, 4) keeps.
WeightUnit == 4

RegretUnit == 10000

\* b ** e for a whole exponent: 0.0 ** 0 is 1.0
RECURSIVE Pow(_, _)
Pow(b, e) == IF e = 0 THEN 1 ELSE b * Pow(b, e - 1)

\* round(num / den, 4) in ten-thousandths: to the nearest, a tie to the even one
Round4(num, den) ==
    LET scaled == num * RegretUnit
        q == scaled \div den
        r == scaled % den
    IN  IF 2 * r > den \/ (2 * r = den /\ q % 2 = 1) THEN q + 1 ELSE q

\* sum(req.disk_gib.mid for req in reqs)
RECURSIVE SumDiskMid(_)
SumDiskMid(reqs) ==
    IF reqs = <<>> THEN 0 ELSE Head(reqs).disk_gib.mid + SumDiskMid(Tail(reqs))

\* Mutant of TotalDisk: the regional requirements are left out
TotalDisk_zonal(plan) == SumDiskMid(plan.requirements.zonal)

\* optimal_disk, plan_disk
TotalDisk(plan) ==
    SumDiskMid(plan.requirements.zonal) + SumDiskMid(plan.requirements.regional)

\* Mutant of CostRegret: the signed difference, whichever plan costs more
CostRegret_signed(params, optimal_cost, plan_cost) ==
    Round4(Pow((plan_cost - optimal_cost) * params.over_provision_cost,
               params.cost_exponent),
           Pow(WeightUnit, params.cost_exponent))

\* Mutant of CostRegret: the two weights exchanged
CostRegret_swapped(params, optimal_cost, plan_cost) ==
    IF plan_cost >= optimal_cost
    THEN Round4(Pow((plan_cost - optimal_cost) * params.under_provision_cost,
                    params.cost_exponent),
                Pow(WeightUnit, params.cost_exponent))
    ELSE Round4(Pow((optimal_cost - plan_cost) * params.over_provision_cost,
                    params.cost_exponent),
                Pow(WeightUnit, params.cost_exponent))

\* round(cost_regret, 4)
CostRegret(params, optimal_cost, plan_cost) ==
    IF plan_cost >= optimal_cost
    THEN Round4(Pow((plan_cost - optimal_cost) * params.over_provision_cost,
                    params.cost_exponent),
                Pow(WeightUnit, params.cost_exponent))
    ELSE Round4(Pow((optimal_cost - plan_cost) * params.under_provision_cost,
                    params.cost_exponent),
                Pow(WeightUnit, params.cost_exponent))

\* round(disk_regret, 4)
DiskRegret(params, optimal_disk, plan_disk) ==
    IF optimal_disk > plan_disk
    THEN Round4(Pow((optimal_disk - plan_disk) * params.under_provision_cost,
                    params.disk_exponent),
                Pow(WeightUnit, params.disk_exponent))
    ELSE 0

regret(params, optimal, proposed) ==
    [ cost |-> CostRegret(params, optimal.candidate_clusters.total_annual_cost,
                          proposed.candidate_clusters.total_annual_cost),
      disk_space |-> DiskRegret(params, TotalDisk(optimal), TotalDisk(proposed)) ]

----------------------------------------------------------------------------
(* The calls of regret that are checked *)

DiskRequirement(gib) == [disk_gib |-> certain(gib)]

ScoredPlan(cost, zonal_gib, regional_gib) ==
    [ candidate_clusters |-> [total_annual_cost |-> cost],
      requirements |->
          [ zonal |-> [i \in DOMAIN zonal_gib |-> DiskRequirement(zonal_gib[i])],
            regional |-> [i \in DOMAIN regional_gib |-> DiskRequirement(regional_gib[i])] ] ]

\* Disk layouts <<zonal, regional>>, of 4, 3 and 1 GiB in total
DiskLayouts == { <<(<<2, 2>>), (<<>>)>>, <<(<<1, 1>>), (<<1>>)>>, <<(<<1>>), (<<>>)>> }

RegretPlans == { ScoredPlan(c, l[1], l[2]) : c \in 0..MaxCost, l \in DiskLayouts }

\* CapacityRegretParameters: the penalty weights are positive (0.5, 1 and 1.25
\* here), the exponents are whole numbers from 0 on
RegretParameters ==
    [ over_provision_cost : {2, 4, 5},
      under_provision_cost : {2, 4, 5},
      cost_exponent : 0..MaxExponent,
      disk_exponent : 0..MaxExponent ]

RegretInit ==
    /\ regret_params \in RegretParameters
    /\ optimal_plan \in RegretPlans
    /\ scores = EmptyDict
    /\ instance = NoneValue
    /\ drive = NoneValue
    /\ context = NoneValue
    /\ desires = NoneValue
    /\ extra_model_arguments = EmptyDict
    /\ pc = "call"
    /\ result = Pending
    /\ model = "base"
    /\ sizer = EmptyDict
    /\ log = <<>>

\* One invocation of regret, on a proposed plan not scored yet
Regret ==
    /\ Cardinality(DOMAIN scores) < MaxScored
    /\ \E proposed \in RegretPlans \ DOMAIN scores :
          scores' = Update(scores, [x \in {proposed} |->
                                      regret(regret_params, optimal_plan, proposed)])
    /\ UNCHANGED <<regret_params, optimal_plan>>
    /\ UNCHANGED kafka_vars
    /\ UNCHANGED harness_vars

SpecRegret == RegretInit /\ [][Regret]_vars

----------------------------------------------------------------------------
(* Properties of the log estimator's capacity_plan, under Spec *)

Done == pc = "done"

ArgStrong ==
    /\ "cluster_type" \in DOMAIN extra_model_arguments
    /\ extra_model_arguments["cluster_type"] = "strong"

\* copies_per_region when supplied, else 3 for strong and 2 for high-availability
EffectiveCopies ==
    IF "copies_per_region" \in DOMAIN extra_model_arguments
    THEN extra_model_arguments["copies_per_region"]
    ELSE IF ArgStrong THEN 3 ELSE 2

ReturnedPlan == result.kind = "plan"

\* Per-zone node count of the returned plan
PlanCount == result.plan[1].candidate_clusters.zonal[1].count

\* C1: when cluster_type is strong and the effective copies_per_region is
\* below 3, capacity_plan raises the configuration error, whatever the
\* instance, the drive and the desires are: no plan and no "no plan" comes back.
C1_StrongBelowThreeRaises ==
    (Done /\ ArgStrong /\ EffectiveCopies < 3)
        => (result.kind = "raise" /\ result.plan = NoneValue)

\* C1 witness: a strong call with two copies on a 1-core instance, which the
\* floor gate would have declined, has raised.
C1_Witness ==
    /\ Done /\ ArgStrong /\ EffectiveCopies = 2
    /\ instance.cpu = 1
    /\ result.kind = "raise"

\* C2: capacity_plan called with an effective copies_per_region below 2 raises,
\* for either cluster type.
C2_BelowTwoRaises ==
    (Done /\ EffectiveCopies < 2) => result.kind = "raise"

BelowDefaultFloor ==
    /\ instance.cpu < 2 \/ instance.ram_gib < 12
    /\ "min_instance_cpu" \notin DOMAIN extra_model_arguments
    /\ "min_instance_memory_gib" \notin DOMAIN extra_model_arguments

\* C3 as stated: an instance with fewer than 2 cores or less than 12 GiB of
\* RAM, with the default floor knobs, gets "no plan" for every setting of the
\* other knobs.
C3_BelowFloorNoPlan ==
    (Done /\ BelowDefaultFloor) => result.kind = "none"

\* C3 amended: an instance with fewer than 2 cores or less than 12 GiB of RAM,
\* with the default floor knobs, gets "no plan" unless cluster_type is strong
\* with an effective copies_per_region below 3.
C3_BelowFloorNoPlanUnlessRaised ==
    (Done /\ BelowDefaultFloor /\ ~(ArgStrong /\ EffectiveCopies < 3))
        => result.kind = "none"

\* C3 witness: an instance with enough cores, a gp3 drive and too little RAM was
\* declined under the default floor.
C3_Witness ==
    /\ Done /\ BelowDefaultFloor
    /\ instance.cpu >= 2 /\ instance.drive = NoneValue /\ drive.name = "gp3"
    /\ result.kind = "none"

Forced == "required_zone_size" \in DOMAIN extra_model_arguments

ForcedSize == extra_model_arguments["required_zone_size"]

\* Disk per node at the forced size: max(1, ceil(zonal disk / s)) rounded up to
\* a multiple of 100 GiB
DiskAtForcedSize ==
    LET zonal_disk == result.plan[1].requirements.zonal[1].disk_gib
        per_node == (zonal_disk + ForcedSize - 1) \div ForcedSize
        at_least_one == IF per_node < 1 THEN 1 ELSE per_node
    IN  ((at_least_one + 99) \div 100) * 100

\* Largest disk of a node: the local drive of positive size, capped by
\* max_local_disk_gib, or 8192 GiB of attached disk
LargestNodeDisk ==
    IF instance.drive # NoneValue /\ instance.drive[1].size_gib > 0
    THEN LET cap == IF "max_local_disk_gib" \in DOMAIN extra_model_arguments
                    THEN extra_model_arguments["max_local_disk_gib"]
                    ELSE 5120
         IN  IF cap < instance.drive[1].size_gib THEN cap ELSE instance.drive[1].size_gib
    ELSE 8192

\* C4 as stated: with a forced zone size the call returns a plan of that
\* per-zone node count, or "no plan".
C4_ForcedSizeExact ==
    (Done /\ Forced)
        => (result.kind = "none" \/ (ReturnedPlan /\ PlanCount = ForcedSize))

\* C4 amended: with a forced zone size s whose disk per node fits the largest
\* node disk, every returned plan has per-zone node count s.
C4_ForcedSizeExactWhenDiskFits ==
    (Done /\ Forced /\ ReturnedPlan /\ DiskAtForcedSize <= LargestNodeDisk)
        => \A z \in DOMAIN result.plan[1].candidate_clusters.zonal :
               result.plan[1].candidate_clusters.zonal[z].count = ForcedSize

\* C4 witness: a plan of three nodes per zone was returned for a forced size of
\* three whose disk per node fits.
C4_Witness ==
    /\ Done /\ Forced /\ ReturnedPlan
    /\ ForcedSize = 3 /\ PlanCount = 3
    /\ DiskAtForcedSize <= LargestNodeDisk

RegionalCap ==
    IF "max_regional_size" \in DOMAIN extra_model_arguments
    THEN extra_model_arguments["max_regional_size"]
    ELSE 150

\* C5: every returned plan has a per-zone node count of at most
\* floor(max_regional_size / Z), with max_regional_size 150 by default.
C5_CountWithinRegionalCap ==
    (Done /\ ReturnedPlan)
        => \A z \in DOMAIN result.plan[1].candidate_clusters.zonal :
               result.plan[1].candidate_clusters.zonal[z].count
                   <= RegionalCap \div context.zones_in_region

\* C5 witness: a plan of exactly 50 nodes per zone under the default cap and
\* three zones, and so at the bound.
C5_Witness ==
    /\ Done /\ ReturnedPlan
    /\ "max_regional_size" \notin DOMAIN extra_model_arguments
    /\ context.zones_in_region = 3
    /\ PlanCount = 50

\* C6: every returned plan has a per-zone node count of at least max(m, forced
\* size), m being 2 for a service tier below 2 and 1 otherwise.
C6_CountAtLeastMinimum ==
    (Done /\ ReturnedPlan)
        => LET m == IF desires.service_tier < 2 THEN 2 ELSE 1
           IN  /\ PlanCount >= m
               /\ Forced => PlanCount >= ForcedSize

\* C6 witness: a tier-1 plan of exactly two nodes per zone with no forced size.
C6_Witness ==
    /\ Done /\ ReturnedPlan /\ ~Forced
    /\ desires.service_tier = 1
    /\ PlanCount = 2

RequireLocalDisks ==
    /\ "require_local_disks" \in DOMAIN extra_model_arguments
    /\ extra_model_arguments["require_local_disks"]

RequireAttachedDisks ==
    /\ "require_attached_disks" \in DOMAIN extra_model_arguments
    /\ extra_model_arguments["require_attached_disks"]

\* The instance has no local drive and the attachable drive is not gp3, or local
\* disks are required and the instance has none, or attached disks are required
\* and the instance has a local drive
DriveMismatch ==
    \/ (instance.drive = NoneValue /\ drive.name # "gp3")
    \/ (RequireLocalDisks /\ instance.drive = NoneValue)
    \/ (RequireAttachedDisks /\ instance.drive # NoneValue)

\* C17 as stated: on a drive mismatch the log estimator returns "no plan" and
\* never raises; with both flags set every candidate gets "no plan".
C17_DriveMismatchNoPlan ==
    /\ (Done /\ DriveMismatch) => result.kind = "none"
    /\ (Done /\ RequireLocalDisks /\ RequireAttachedDisks) => result.kind = "none"

\* C17 amended: on a drive mismatch the log estimator returns "no plan", and so
\* it does for every candidate when both flags are set, unless cluster_type is
\* strong with an effective copies_per_region below 3.
C17_DriveMismatchNoPlanUnlessRaised ==
    /\ (Done /\ DriveMismatch /\ ~(ArgStrong /\ EffectiveCopies < 3))
           => result.kind = "none"
    /\ (Done /\ RequireLocalDisks /\ RequireAttachedDisks
             /\ ~(ArgStrong /\ EffectiveCopies < 3))
           => result.kind = "none"

\* C17 witness: an instance above the floor with a local drive, offered with a
\* gp3 drive, was declined because attached disks are required.
C17_Witness ==
    /\ Done /\ model = "kafka"
    /\ instance.cpu >= 2 /\ instance.ram_gib >= 12
    /\ instance.drive # NoneValue /\ drive.name = "gp3"
    /\ RequireAttachedDisks /\ ~RequireLocalDisks
    /\ ~(ArgStrong /\ EffectiveCopies < 3)
    /\ result.kind = "none"

----------------------------------------------------------------------------
(* Properties of the store estimator's capacity_plan, under SpecCassandra *)

AllowGp2 ==
    IF "allow_gp2" \in DOMAIN extra_model_arguments
    THEN extra_model_arguments["allow_gp2"]
    ELSE TRUE

\* C14: the store estimator returns "no plan" for an instance with fewer than 8
\* cores, for a drive that is not gp2, with or without a local drive on the
\* instance, and for an instance without a local drive when allow_gp2 is false,
\* whatever the desires and the other arguments are.
C14_StoreGatesNoPlan ==
    ( /\ Done
      /\ \/ instance.cpu < 8
         \/ drive.name # "gp2"
         \/ (instance.drive = NoneValue /\ ~AllowGp2) )
        => result.kind = "none"

\* C14 witness: a 4-core instance with a local drive was declined although the
\* drive is gp2 and gp2 is allowed.
C14_Witness ==
    /\ Done /\ model = "cassandra"
    /\ instance.cpu = 4 /\ instance.drive # NoneValue
    /\ drive.name = "gp2" /\ AllowGp2
    /\ result.kind = "none"

ForcedClusterSize == "required_cluster_size" \in DOMAIN extra_model_arguments

----------------------------------------------------------------------------
(* Properties of the invocations of one search, under SpecHarness *)

C12_InputsUnchanged ==
    \A i \in DOMAIN log :
        log[i].model = "kafka"
            => /\ log[i].after.desires = log[i].before.desires
               /\ log[i].after.instance = log[i].before.instance
               /\ log[i].after.drive = log[i].before.drive

\* C12 witness: a plan was sized from the observed peak of the current cluster,
\* which differs from its mid, for a workload whose rates the scaling changes,
\* and the caller's desires still hold the rates and the intervals they held.
C12_Witness ==
    \E i \in DOMAIN log :
        LET d == log[i].before.desires
            cur == d.current_clusters[1].zonal[1]
        IN  /\ log[i].model = "kafka"
            /\ log[i].result.kind = "plan"
            /\ d.current_clusters # NoneValue
            /\ "required_zone_size" \in DOMAIN log[i].before.args
            /\ cur.disk_utilization_gib.high # cur.disk_utilization_gib.mid
            /\ log[i].result.plan[1].requirements.zonal[1].disk_gib
                   = cur.disk_utilization_gib.high
            /\ d.query_pattern.estimated_mean_read_size_bytes.mid > MIB_IN_BYTES
            /\ log[i].after.desires = d

\* The knob k of the call, or its default
KnobOr(k, default) ==
    IF k \in DOMAIN extra_model_arguments THEN extra_model_arguments[k] ELSE default

\* What the external collaborators returned to the invocation just made
LastSizer == log[Len(log)].ext

\* The log estimator was invoked, the configuration is valid, and the instance
\* floor and the drive rules let the candidate through
ReachesFamilyGate ==
    /\ Done /\ model = "kafka"
    /\ ~(ArgStrong /\ EffectiveCopies < 3)
    /\ instance.cpu >= KnobOr("min_instance_cpu", 2)
    /\ instance.ram_gib >= KnobOr("min_instance_memory_gib", 12)
    /\ ~DriveMismatch

HasCurrentCluster ==
    /\ desires.current_clusters # NoneValue
    /\ Len(desires.current_clusters[1].zonal) > 0

\* The candidate is not of the family of the current cluster's instance; none
\* is when that instance is not resolved
FamilyDiffers ==
    LET current == desires.current_clusters[1].zonal[1].cluster_instance
    IN  current = NoneValue \/ current[1].family # instance.family

HeldToFamily ==
    HasCurrentCluster /\ KnobOr("require_same_instance_family", TRUE) /\ FamilyDiffers

\* Nodes per zone the zone sizer returns: what the resources need, at least 2
\* below tier 2, at least the forced size
SizedCount ==
    LET m == IF desires.service_tier < 2 THEN 2 ELSE 1
        floor == IF Forced /\ ForcedSize > m THEN ForcedSize ELSE m
    IN  IF LastSizer.natural_count > floor THEN LastSizer.natural_count ELSE floor

WithinRegionalCap == SizedCount <= RegionalCap \div context.zones_in_region

ReachesSizing == ReachesFamilyGate /\ ~HeldToFamily

\* The zonal disk requirement of the invocation just made
ZonalDiskRequirement ==
    estimate_kafka_requirement(instance, desires,
                               KeywordArguments(context, extra_model_arguments),
                               LastSizer).disk_gib

\* d: max(1, ceil(zonal disk requirement / s)) rounded up to a multiple of 100
DiskPerNodeAtForcedSize ==
    LET per_node == (ZonalDiskRequirement + ForcedSize - 1) \div ForcedSize
        at_least_one == IF per_node < 1 THEN 1 ELSE per_node
    IN  ((at_least_one + 99) \div 100) * 100

\* M as stated: min(max_local_disk_gib, local drive size) for an instance with
\* a local drive, 8192 GiB otherwise
StatedLargestNodeDisk ==
    IF instance.drive # NoneValue
    THEN IF KnobOr("max_local_disk_gib", 5120) < instance.drive[1].size_gib
         THEN KnobOr("max_local_disk_gib", 5120)
         ELSE instance.drive[1].size_gib
    ELSE 8192

\* With a forced size and the largest node disk M: when d <= M a plan is
\* returned only for a sized count equal to s, when d > M also for another
\* count; in both cases for a count within the regional cap, and no other
ForcedSizeRule(M) ==
    (ReachesSizing /\ Forced)
        => /\ result.kind = "plan"
                  <=> ( /\ WithinRegionalCap
                        /\ DiskPerNodeAtForcedSize <= M => SizedCount = ForcedSize )
           /\ result.kind = "plan" => PlanCount = SizedCount

\* C19 as stated: the forced-size rule with M = min(max_local_disk_gib, local
\* drive size) for an instance with a local drive and 8192 GiB otherwise.
C19_ForcedSizeEscape ==
    ForcedSizeRule(StatedLargestNodeDisk)

\* C19 amended: the forced-size rule with M = min(max_local_disk_gib, local
\* drive size) for an instance with a local drive of positive size and 8192 GiB
\* otherwise.
C19_ForcedSizeEscapePositiveDrive ==
    ForcedSizeRule(LargestNodeDisk)

\* C19 witness: the disk per node at the forced size of 3 exceeds the largest
\* node disk, and a plan of 4 nodes per zone was returned.
C19_Witness ==
    /\ ReachesSizing /\ Forced
    /\ ForcedSize = 3
    /\ DiskPerNodeAtForcedSize > LargestNodeDisk
    /\ result.kind = "plan" /\ PlanCount = 4

\* The inputs c with the write rate doubled: the writes per second, or the
\* write bytes per second
WriteRateDoubled(c) ==
    { [c EXCEPT !.desires.query_pattern[field] =
                    [low |-> 2 * @.low, mid |-> 2 * @.mid, high |-> 2 * @.high]] :
        field \in {"estimated_write_per_second", "estimated_mean_write_size_bytes"} }

NetworkMbpsOf(invocation) == invocation.result.plan[1].requirements.zonal[1].network_mbps

\* C13: of two plans of the log estimator for desires without a current
\* cluster, the second for the inputs of the first with the write rate doubled
\* and all else equal, the second's zonal network_mbps is not below the first's.
C13_DoubledWriteRateNetwork ==
    \A i, j \in DOMAIN log :
        ( /\ log[i].model = "kafka" /\ log[j].model = "kafka"
          /\ log[i].before.desires.current_clusters = NoneValue
          /\ log[j].before \in WriteRateDoubled(log[i].before)
          /\ log[i].result.kind = "plan" /\ log[j].result.kind = "plan" )
        => NetworkMbpsOf(log[j]) >= NetworkMbpsOf(log[i])

\* C13 witness: the write bytes per second were doubled for a workload whose
\* readers make the outbound direction the wider one, and the network
\* requirement grew.
C13_Witness ==
    \E i, j \in DOMAIN log :
        LET q == log[i].before.desires.query_pattern
        IN  /\ log[i].model = "kafka" /\ log[j].model = "kafka"
            /\ log[i].before.desires.current_clusters = NoneValue
            /\ log[j].before \in WriteRateDoubled(log[i].before)
            /\ q.estimated_mean_read_size_bytes.mid
                   > 2 * q.estimated_mean_write_size_bytes.mid
            /\ log[j].before.desires.query_pattern.estimated_mean_write_size_bytes.mid
                   = 2 * q.estimated_mean_write_size_bytes.mid
            /\ log[i].result.kind = "plan" /\ log[j].result.kind = "plan"
            /\ NetworkMbpsOf(log[j]) > NetworkMbpsOf(log[i])

\* C22: every component of the requirement of a plan the store estimator
\* returns is the zone's share of the regional need: the cores are twice the
\* staffed cores over Z, the network is twice the estimated network over Z, the
\* disk is the state size times R over Z, and the memory is the working-set
\* fraction of that disk.
C22_StoreRequirementIsZonalShare ==
    (Done /\ model = "cassandra" /\ ReturnedPlan)
        => LET requirement == result.plan[1].requirement
               Z == KnobOr("zones_per_region", 3)
               R == KnobOr("copies_per_region", 3)
               regional_disk == desires.data_shape.estimated_state_size_gib.mid * R
           IN  /\ requirement.cpu_cores = (2 * LastSizer.staffed_cores) \div Z
               /\ requirement.network_mbps = (2 * LastSizer.network_mbps) \div Z
               /\ requirement.disk_gib = regional_disk \div Z
               /\ requirement.mem_gib
                      = (LastSizer.working_set_percent * regional_disk) \div (100 * Z)

----------------------------------------------------------------------------
(* Properties of the disk IO budget, under SpecDiskIo *)

\* IO operations per second of one zone: max(1, zonal MiB/s x 1024 / sequential
\* IO size in KiB), for the mean bytes per second given
ZoneIoRate(bytes_per_second) ==
    LET zonal_mib == (bytes_per_second \div 1048576) \div context.zones_in_region
        ios == (zonal_mib * 1024) \div drive.seq_io_size_kib
    IN  IF ios > 1 THEN ios ELSE 1

ZoneReadIoRate == ZoneIoRate(desires.query_pattern.estimated_mean_read_size_bytes.mid)

ZoneWriteIoRate == ZoneIoRate(desires.query_pattern.estimated_mean_write_size_bytes.mid)

\* IO operations per second that read half of a node's disk of size GiB again,
\* in sequential-IO blocks, within 3600 seconds: at least one block, to the
\* nearest whole
RecoveryIops(size) ==
    LET half_kib == size * 512 * 1024
        blocks == IF half_kib > drive.seq_io_size_kib
                  THEN half_kib \div drive.seq_io_size_kib
                  ELSE 1
    IN  (2 * blocks + 3600) \div 7200

\* The float r is the quotient n / d
IsQuotient(r, n, d) == r.num * d = n * r.den

\* The budget of the evaluation q takes each node to carry the share 1 / nodes
\* of the zone's rates
BudgetForShare(q, nodes) ==
    /\ IsQuotient(q.ios.read,
                  3 * (ZoneReadIoRate + 20 * nodes * RecoveryIops(q.size)), 40 * nodes)
    /\ IsQuotient(q.ios.write, EffectiveCopies * ZoneWriteIoRate * 2, nodes)

\* C23 as stated: the budget handed to the zone sizer is, for reads, (5% of the
\* zone's read IO rate + the recovery IOPS) x 1.5 and, for writes, R x the
\* zone's write IO rate x 2, whatever node count it is asked for.
C23_DiskIoBudgetOfZoneRates ==
    \A i \in DOMAIN log : BudgetForShare(log[i], 1)

\* C23: the budget handed to the zone sizer for a disk size and a node count
\* is, for reads, (5% of the zone's read IO rate over the node count + the
\* recovery IOPS) x 1.5 and, for writes, R x the zone's write IO rate over the
\* node count x 2.
C23_DiskIoBudgetOfNodeRates ==
    \A i \in DOMAIN log : BudgetForShare(log[i], log[i].count)

\* C23 witness: the budget was asked for 3 nodes with disks of 3000 GiB each,
\* for a zone that reads more than it writes.
C23_Witness ==
    /\ pc = "sizing" /\ Len(log) > 0
    /\ log[Len(log)].count = 3 /\ log[Len(log)].size = 3000
    /\ ZoneReadIoRate > ZoneWriteIoRate /\ ZoneWriteIoRate > 1
    /\ RecoveryIops(3000) > 0

----------------------------------------------------------------------------
(* Properties of capacity_plan on the knobs of its schema, under SpecSchema *)

\* C24: every plan the log estimator returns is tagged with the replication
\* factor it was sized with, which is copies_per_region when supplied and
\* otherwise 3 for strong and 2 for high-availability: the cluster parameters
\* of every zone carry it as kafka.copies, the context of every zonal
\* requirement carries it as replication_factor, and every other parameter the
\* zone sizer set on the cluster is still there with its value.
C24_PlanTaggedWithReplicationFactor ==
    (Done /\ ReturnedPlan)
        => \A z \in DOMAIN result.plan[1].candidate_clusters.zonal :
               LET params == result.plan[1].candidate_clusters.zonal[z].cluster_params
                   requirement == result.plan[1].requirements.zonal[z]
               IN  /\ "kafka.copies" \in DOMAIN params
                   /\ params["kafka.copies"] = EffectiveCopies
                   /\ requirement.context.replication_factor = EffectiveCopies
                   /\ \A k \in DOMAIN LastSizer.cluster_params \ {"kafka.copies"} :
                          /\ k \in DOMAIN params
                          /\ params[k] = LastSizer.cluster_params[k]

\* C24 witness: a plan for a strong cluster without copies_per_region, sized on
\* a cluster the zone sizer had set a parameter on.
C24_Witness ==
    /\ Done /\ ReturnedPlan
    /\ ArgStrong /\ "copies_per_region" \notin DOMAIN extra_model_arguments
    /\ DOMAIN LastSizer.cluster_params # {}
    /\ result.plan[1].candidate_clusters.zonal[1].cluster_params["kafka.copies"] = 3

\* The zone size forced under the name the argument schema declares
SchemaForced == "required_zonal_size" \in DOMAIN extra_model_arguments

SchemaForcedSize == extra_model_arguments["required_zonal_size"]

\* Disk per node at the zone size forced under the schema's name: max(1,
\* ceil(zonal disk / s)) rounded up to a multiple of 100 GiB
DiskAtSchemaForcedSize ==
    LET zonal_disk == result.plan[1].requirements.zonal[1].disk_gib
        per_node == (zonal_disk + SchemaForcedSize - 1) \div SchemaForcedSize
        at_least_one == IF per_node < 1 THEN 1 ELSE per_node
    IN  ((at_least_one + 99) \div 100) * 100

\* C26: a zone size s forced under the knob name the argument schema declares,
\* required_zonal_size, constrains the plan as the forced-size rule
\* prescribes: when the disk per node at s fits the largest node disk, every
\* returned plan has s nodes per zone.
C26_SchemaForcedSizeConstrainsPlan ==
    (Done /\ SchemaForced /\ ReturnedPlan /\ DiskAtSchemaForcedSize <= LargestNodeDisk)
        => \A z \in DOMAIN result.plan[1].candidate_clusters.zonal :
               result.plan[1].candidate_clusters.zonal[z].count = SchemaForcedSize

----------------------------------------------------------------------------
(* Properties of default_desires, under SpecDesires *)

\* C16: default_desires of the model contract, of the log estimator and of the
\* store estimator raises when the user desires ask for a linearizable or a
\* serializable consistency level, and returns no defaults.
C16_UnofferedConsistencyRaises ==
    ( /\ Done
      /\ desires.query_pattern.access_consistency \in {"linearizable", "serializable"} )
        => result.kind = "raise"

\* Seconds of the retention knob, PT8H when it is not supplied
RetentionSeconds ==
    LET retention == KnobOr("retention", "PT8H")
    IN  IF retention = "PT1H" THEN 3600 ELSE 28800

\* C25: the default state size the log estimator's default_desires returns is
\* sized with the replication factor capacity_plan uses for the same extra
\* arguments (copies_per_region when supplied, else 3 for strong and 2 for
\* high-availability): its mid is write bytes mid x retention seconds x that
\* factor, here in MiB, its low is half of the mid and its high is twice the
\* mid.
C25_DefaultStateUsesPlanReplicationFactor ==
    (Done /\ model = "kafka" /\ result.kind = "desires")
        => LET state == result.plan[1].data_shape.estimated_state_size_gib
               write_mib ==
                   desires.query_pattern.estimated_mean_write_size_bytes.mid \div 1048576
               mid == write_mib * RetentionSeconds * EffectiveCopies
           IN  /\ state.mid = mid
               /\ 2 * state.low = mid
               /\ state.high = 2 * mid

----------------------------------------------------------------------------
(* Properties of the log estimator's requirement, under Spec *)

\* C20: whenever the desires carry a current zonal cluster on a known instance,
\* the disk and network requirement of a returned plan are the high bounds of
\* the observed disk and network utilization, not the workload estimate;
\* without a current cluster they are the estimates ceil((state / Z) x 2.5) and
\* max(in, out) x 1.4 / Z.
C20_ObservedPeakWheneverCurrentCluster ==
    (Done /\ ReturnedPlan)
        => LET requirement == result.plan[1].requirements.zonal[1]
               current == desires.current_clusters[1].zonal[1]
               Z == context.zones_in_region
               state == desires.data_shape.estimated_state_size_gib.mid
               write == desires.query_pattern.estimated_mean_write_size_bytes.mid
               read == desires.query_pattern.estimated_mean_read_size_bytes.mid
               in == write * EffectiveCopies
               out == read + write * (EffectiveCopies - 1)
               wider == IF in > out THEN in ELSE out
           IN  /\ (HasCurrentCluster /\ current.cluster_instance # NoneValue)
                      => /\ requirement.disk_gib = current.disk_utilization_gib.high
                         /\ requirement.network_mbps
                                = current.network_utilization_mbps.high
               /\ ~HasCurrentCluster
                      => /\ requirement.disk_gib = ((state \div Z) * 5 + 1) \div 2
                         /\ requirement.network_mbps
                                = (wider * 7) \div (5 * 125000 * Z)

\* C21: without a current cluster, the zonal disk requirement of a returned
\* plan is ceil((state / Z) x 2.5) with the division by Z exact, that is
\* ceil(5 x state / (2 x Z)), so that the zone's share of the state, state / Z,
\* is at most 40% of the requested disk.
C21_DiskIsExactShareTimesTwoAndAHalf ==
    (Done /\ ReturnedPlan /\ ~HasCurrentCluster)
        => LET requirement == result.plan[1].requirements.zonal[1]
               Z == context.zones_in_region
               state == desires.data_shape.estimated_state_size_gib.mid
           IN  /\ requirement.disk_gib = (5 * state + 2 * Z - 1) \div (2 * Z)
               /\ 5 * state <= 2 * Z * requirement.disk_gib

----------------------------------------------------------------------------
(* Properties of regret, under SpecRegret *)

OptimalCost == optimal_plan.candidate_clusters.total_annual_cost

CostOf(p) == p.candidate_clusters.total_annual_cost

\* Mid disk of the first n requirements of reqs, summed
RECURSIVE MidDiskUpTo(_, _)
MidDiskUpTo(reqs, n) ==
    IF n = 0 THEN 0 ELSE reqs[n].disk_gib.mid + MidDiskUpTo(reqs, n - 1)

\* Sum of the mid disk of all zonal plus all regional requirements
DiskOf(p) ==
    MidDiskUpTo(p.requirements.zonal, Len(p.requirements.zonal))
    + MidDiskUpTo(p.requirements.regional, Len(p.requirements.regional))

\* (quarters * 1/4) ^ exponent, in ten-thousandths
Powered(quarters, exponent) == Round4(Pow(quarters, exponent), Pow(WeightUnit, exponent))

C8_IdenticalPlansZero ==
    \A p \in DOMAIN scores :
        p = optimal_plan => scores[p] = [cost |-> 0, disk_space |-> 0]

\* C9: the disk_space regret is ((O.disk - P.disk) x under_provision_cost) ^
\* disk_exponent, and positive, when the proposal's total disk is less than the
\* optimal plan's, and 0 otherwise, whatever the two costs are.
C9_DiskRegret ==
    \A p \in DOMAIN scores :
        IF DiskOf(p) < DiskOf(optimal_plan)
        THEN /\ scores[p].disk_space =
                    Powered((DiskOf(optimal_plan) - DiskOf(p))
                                * regret_params.under_provision_cost,
                            regret_params.disk_exponent)
             /\ scores[p].disk_space > 0
        ELSE scores[p].disk_space = 0

\* C9 witness: a proposal that costs less than the optimal plan and holds less
\* disk was scored with a positive disk_space regret.
C9_Witness ==
    \E p \in DOMAIN scores :
        /\ CostOf(p) < OptimalCost
        /\ DiskOf(p) < DiskOf(optimal_plan)
        /\ scores[p].disk_space > 0

\* C10: the cost regret is ((P.cost - O.cost) x over_provision_cost) ^
\* cost_exponent when the proposal costs at least as much as the optimal plan
\* and ((O.cost - P.cost) x under_provision_cost) ^ cost_exponent when it costs
\* less; and of two proposals equally far above and below the optimal cost,
\* the cheaper one scores at least as much when under_provision_cost >=
\* over_provision_cost.
C10_CostRegret ==
    /\ \A p \in DOMAIN scores :
          scores[p].cost =
              IF CostOf(p) >= OptimalCost
              THEN Powered((CostOf(p) - OptimalCost) * regret_params.over_provision_cost,
                           regret_params.cost_exponent)
              ELSE Powered((OptimalCost - CostOf(p)) * regret_params.under_provision_cost,
                           regret_params.cost_exponent)
    /\ \A p, q \in DOMAIN scores :
          ( /\ CostOf(p) > OptimalCost
            /\ CostOf(p) - OptimalCost = OptimalCost - CostOf(q)
            /\ regret_params.under_provision_cost >= regret_params.over_provision_cost )
          => scores[q].cost >= scores[p].cost

\* C10 witness: two proposals equally far above and below the optimal cost
\* were scored, and the cheaper one scored strictly more.
C10_Witness ==
    \E p, q \in DOMAIN scores :
        /\ CostOf(p) > OptimalCost
        /\ CostOf(p) - OptimalCost = OptimalCost - CostOf(q)
        /\ regret_params.under_provision_cost > regret_params.over_provision_cost
        /\ scores[q].cost > scores[p].cost

====
